---- MODULE Spec2Model ----
(***************************************************************************)
(* Interview session orchestration of gigbazar-adk: the PublicInterview    *)
(* page (stage machine, create_interview / update_interview requests) and  *)
(* the Interview component it hosts (startConversation, stopConversation,  *)
(* the useConversation callbacks).  Every await of the source is a point   *)
(* where other handlers may run, so each async function is a small process *)
(* whose position is part of the state.  The voice SDK, the browser and    *)
(* the backend are the environment: their answers are drawn from small     *)
(* sets.                                                                   *)
(***************************************************************************)
EXTENDS Integers, Sequences, FiniteSets, Bags, TLC

\* ---------------------------------------------------------------- bounds
MaxClicks == 2        \* clicks on the buttons of Interview in one behaviour
MaxMsgs == 2          \* messages the provider delivers in one behaviour
MaxLog == 3           \* entries of an event log handed to the assembler
MaxHistory == 3       \* entries of the browser's history stack
MaxOps == 4           \* provisioning calls requested in one behaviour
MaxSkills == 2        \* skills entered in a job form

\* ------------------------------------------------------- bags of runs
\* The runs of an async function are kept as a bag of their states: two runs
\* in the same state are interchangeable.
Runs(B) == BagToSet(B)
One(x) == SetToBag({x})
Replace(B, x, y) == (B (-) One(x)) (+) One(y)

RECURSIVE BagMapFrom(_, _, _)
\* The bag of F[x] for the elements x of B that are in S, with their counts.
BagMapFrom(F, B, S) ==
    IF S = {} THEN EmptyBag
    ELSE LET x == CHOOSE y \in S : TRUE
         IN  BagMapFrom(F, B, S \ {x}) (+) [z \in {F[x]} |-> CopiesIn(x, B)]

\* ------------------------------------------------------------ JS values
Absent == "<absent>"                 \* undefined / missing property
Truthy(v) == v \notin {Absent, ""}   \* JS truthiness of a string-or-undefined

agentId == "agent_1301kdn9m60af3jawwhtacys4z4v"
SignedUrlValue == "wss://signed"

\* ------------------------------------------- the signed-URL request
\* What fetch + response.json() can give back to startConversation.
Responses ==
    { [net |-> "error", ok |-> FALSE, body |-> "none", signed_url |-> Absent, error |-> Absent],
      [net |-> "ok", ok |-> FALSE, body |-> "json", signed_url |-> Absent, error |-> "boom"],
      [net |-> "ok", ok |-> TRUE, body |-> "malformed", signed_url |-> Absent, error |-> Absent],
      [net |-> "ok", ok |-> TRUE, body |-> "null", signed_url |-> Absent, error |-> Absent] }
    \cup { [net |-> "ok", ok |-> TRUE, body |-> "json", signed_url |-> s, error |-> e] :
             s \in {Absent, "", SignedUrlValue}, e \in {Absent, "boom"} }

\* The class of a response, in the words of the signed-URL contract.
ResponseKind(r) ==
    IF r.net = "error" THEN "throws"
    ELSE IF ~r.ok THEN "httpError"
    ELSE IF r.body # "json" THEN "malformed"
    ELSE IF Truthy(r.signed_url) THEN "signed"
    ELSE IF Truthy(r.error) THEN "errorField"
    ELSE "neither"

\* Faulty variant: the inner try/catch is missing, a failing fetch or json() escapes.
FetchSignedUrlNoInnerCatch(r) ==
    IF r.net = "error" THEN [signedUrl |-> Absent, raised |-> TRUE]
    ELSE IF r.ok
         THEN IF r.body # "json" THEN [signedUrl |-> Absent, raised |-> TRUE]
              ELSE IF Truthy(r.signed_url) THEN [signedUrl |-> r.signed_url, raised |-> FALSE]
              ELSE [signedUrl |-> Absent, raised |-> FALSE]
         ELSE [signedUrl |-> Absent, raised |-> FALSE]

\* Lines 49-76 of startConversation: the value of signedUrl after the inner
\* try/catch, and whether anything escaped it (raised).
FetchSignedUrl(r) ==
    IF r.net = "error"
    THEN [signedUrl |-> Absent, raised |-> FALSE]               \* catch (backendError)
    ELSE IF r.ok
         THEN IF r.body # "json"
              THEN [signedUrl |-> Absent, raised |-> FALSE]     \* json() / data.x throws, caught
              ELSE IF Truthy(r.signed_url)
                   THEN [signedUrl |-> r.signed_url, raised |-> FALSE]
                   ELSE [signedUrl |-> Absent, raised |-> FALSE]
         ELSE [signedUrl |-> Absent, raised |-> FALSE]          \* console.warn, fall back

\* Faulty variant: without a signed URL the start gives up instead of falling back.
SessionRequestNoFallback(signedUrl) ==
    IF Truthy(signedUrl)
    THEN [cred |-> "signed", connectionType |-> "websocket", target |-> signedUrl]
    ELSE [cred |-> "none", connectionType |-> "none", target |-> Absent]

\* Lines 78-94: the argument of conversation.startSession.
SessionRequest(signedUrl) ==
    IF Truthy(signedUrl)
    THEN [cred |-> "signed", connectionType |-> "websocket", target |-> signedUrl]
    ELSE [cred |-> "fallback", connectionType |-> "webrtc", target |-> agentId]


\* ------------------------------------------------- transcript assembly
\* What the provider can deliver to onMessage ({role, message | text}).
Messages ==
    { [role |-> "agent", message |-> "Hello", text |-> Absent],
      [role |-> Absent, message |-> "", text |-> "Hi"] }

\* `${msg.role || 'unknown'}: ${msg.message || msg.text || ''}`
Line(msg) ==
    (IF Truthy(msg.role) THEN msg.role ELSE "unknown") \o ": " \o
    (IF Truthy(msg.message) THEN msg.message
     ELSE IF Truthy(msg.text) THEN msg.text ELSE "")

\* msg.role || 'unknown'
Role(msg) == IF Truthy(msg.role) THEN msg.role ELSE "unknown"

\* msg.message || msg.text || ''
Text(msg) ==
    IF Truthy(msg.message) THEN msg.message
    ELSE IF Truthy(msg.text) THEN msg.text ELSE ""

RECURSIVE Join(_)
\* Faulty variant: a line equal to the one after it is left out.
JoinDeduplicating(lines) ==
    IF lines = <<>> THEN ""
    ELSE IF Len(lines) = 1 THEN lines[1]
    ELSE IF lines[1] = lines[2] THEN Join(Tail(lines))
    ELSE lines[1] \o "\n" \o Join(Tail(lines))

\* Array.prototype.join('\n') over the mapped lines.
Join(lines) ==
    IF lines = <<>> THEN ""
    ELSE IF Len(lines) = 1 THEN lines[1]
    ELSE lines[1] \o "\n" \o Join(Tail(lines))

\* messagesRef.current.map(...).join('\n')
Assemble(log) == Join([i \in 1..Len(log) |-> Line(log[i])])

\* ------------------------------------------------------------ the state
VARIABLES
    job,            \* PublicInterview: the loaded job, "none" while null
    loading,        \* PublicInterview: loading flag
    stage,          \* PublicInterview: 'info' | 'form' | 'interview' | 'complete'
    candidateName,  \* PublicInterview: the name field
    interviewId,    \* PublicInterview: id returned by create_interview
    loadPc,         \* position of loadJob
    createPc,       \* position of handleStartInterview
    ends,           \* bag of the runs of handleInterviewEnd
    record,         \* the interview record held by the backend
    status,         \* conversation.status of the voice SDK
    channel,        \* connectionType of the open session, "none" when closed
    messagesRef,    \* Interview: messagesRef.current
    queued,         \* setMessages updaters React has not run yet
    delivered,      \* number of messages handed to onMessage
    attempts,       \* bag of the runs of startConversation
    stops,          \* bag of the runs of stopConversation
    session,        \* App: the signed-in user, "none" while null
    authLoading,    \* App: loading, until onAuthStateChanged has fired
    history,        \* BrowserRouter: the history stack, current entry last
    hr,             \* HRDashboard: view, loading and the run of handleCreateJob
    jobStore,       \* backend: the stored jobs with their agent profiles
    provisioning    \* backend: bag of the provisioning calls

vars == << job, loading, stage, candidateName, interviewId, loadPc, createPc,
           ends, record, status, channel, messagesRef, queued, delivered,
           attempts, stops, session, authLoading, history, hr, jobStore,
           provisioning >>

interviewVars == << job, loading, stage, candidateName, interviewId, loadPc,
                    createPc, ends, record, status, channel, messagesRef,
                    queued, delivered, attempts, stops >>
appVars == << session, authLoading, history >>
serviceVars == << hr, jobStore, provisioning >>

pageVars == << job, loading, stage, candidateName, interviewId, loadPc, createPc >>
msgVars == << messagesRef, queued, delivered >>

\* A run of startConversation right after the click: awaiting getUserMedia.
\*   kind       class of the signed-URL response while startSession is pending
\*   cred/conn  how startSession was called
\*   fail       why the outer catch ran
\*   cancelled  observation: 'Back to Dashboard' was pressed while in flight
NewAttempt ==
    [pc |-> "permission", kind |-> "none", cred |-> "none", fail |-> "none",
     conn |-> "none", fetchSent |-> FALSE, sessionCalled |-> FALSE,
     alerted |-> FALSE, cancelled |-> FALSE]

\* A run of stopConversation right after the click: awaiting endSession.
NewStop == [pc |-> "ending", handed |-> FALSE, transcript |-> Absent]

\* A run of handleInterviewEnd(t) at its awaited fetch; tries counts the
\* update_interview requests the run has sent.
NewEnd(t) ==
    [pc |-> "fetching", transcript |-> IF Truthy(t) THEN t ELSE "",
     outcome |-> "none", toasted |-> FALSE, tries |-> 1]

InterviewInit ==
    /\ job = "none"
    /\ loading = TRUE
    /\ stage = "info"
    /\ candidateName = ""
    /\ interviewId = ""
    /\ loadPc = "fetching"          \* useEffect runs loadJob on mount
    /\ createPc = "idle"
    /\ ends = EmptyBag
    /\ record = [status |-> "none", transcript |-> "", writes |-> 0]
    /\ status = "disconnected"
    /\ channel = "none"
    /\ messagesRef = <<>>
    /\ queued = <<>>
    /\ delivered = 0
    /\ attempts = EmptyBag
    /\ stops = EmptyBag

\* The browser of a candidate who is not signed in, on the share link, once
\* onAuthStateChanged has fired.
CandidateApp ==
    /\ session = "none"
    /\ authLoading = FALSE
    /\ history = << "/interview/tok1" >>

\* The Interview component is rendered (PublicInterview lines 124-250).
Mounted == ~loading /\ job # "none" /\ stage = "interview"

\* A run of startConversation that has started and not yet ended.
InFlight(att) == att.pc \in {"permission", "fetch", "session"}

\* ------------------------------------------- the controls of Interview
\* Faulty variant: after a failed attempt the Start button is gone.
StartOfferedUnlessFailed ==
    /\ Mounted
    /\ status \notin {"connected", "connecting"}
    /\ \A a \in Runs(attempts) : a.pc # "failed"

\* 'Start Interview Call' (lines 162-170): rendered unless connected,
\* disabled while connecting.
StartOffered == Mounted /\ status \notin {"connected", "connecting"}

\* 'End Call' (lines 172-176): rendered while connected.
EndCallOffered == Mounted /\ status = "connected"

\* 'Back to Dashboard' (line 151): always rendered.  Its handler,
\* handleInterviewEnd, returns at once when there is no interview id.
BackOffered == Mounted
BackChangesState == BackOffered /\ Truthy(interviewId)

\* -------------------------------------------------- PublicInterview page
Names == {"", "  ", "Ann"}
\* String.prototype.trim on the names of the model.
Trim(n) == IF n = "  " THEN "" ELSE n

LoadJobResults == {"job", "error", "neither", "throws"}

\* loadJob, from the awaited get_job_by_token response to the finally block.
loadJob(result) ==
    /\ loadPc = "fetching"
    /\ loadPc' = "done"
    /\ loading' = FALSE
    /\ IF result = "job"
       THEN job' = "job1" /\ stage' = "form"
       ELSE UNCHANGED << job, stage >>
    /\ UNCHANGED << candidateName, interviewId, createPc, ends, record, status,
                    channel, msgVars, attempts, stops >>
    /\ UNCHANGED << appVars, serviceVars >>

\* onChange of the name field.
setCandidateName(n) ==
    /\ ~loading /\ job # "none" /\ stage = "form"
    /\ n # candidateName
    /\ candidateName' = n
    /\ UNCHANGED << job, loading, stage, interviewId, loadPc, createPc, ends,
                    record, status, channel, msgVars, attempts, stops >>
    /\ UNCHANGED << appVars, serviceVars >>

\* Faulty variant: the request is sent whatever the name field holds.
handleStartInterviewAnyName ==
    /\ ~loading /\ job # "none" /\ stage = "form"
    /\ createPc = "idle"
    /\ loading' = TRUE
    /\ createPc' = "fetching"
    /\ UNCHANGED << job, stage, candidateName, interviewId, loadPc, ends, record,
                    status, channel, msgVars, attempts, stops >>
    /\ UNCHANGED << appVars, serviceVars >>

\* handleStartInterview up to the awaited create_interview request.  The
\* button is disabled while loading or while the trimmed name is empty.
handleStartInterview ==
    /\ ~loading /\ job # "none" /\ stage = "form"
    /\ Truthy(Trim(candidateName))
    /\ createPc = "idle"
    /\ loading' = TRUE
    /\ createPc' = "fetching"
    /\ UNCHANGED << job, stage, candidateName, interviewId, loadPc, ends, record,
                    status, channel, msgVars, attempts, stops >>
    /\ UNCHANGED << appVars, serviceVars >>

\* What the create_interview request can give back: {status, id}, {error},
\* or a fetch or json() that throws.
CreateResults ==
    { [status |-> "success", id |-> "iv1"],
      [status |-> "error", id |-> Absent], [status |-> "throws", id |-> Absent] }

\* Faulty variant: the id of the response is not stored.
createInterviewSettlesWithoutId(r) ==
    /\ createPc = "fetching"
    /\ createPc' = "idle"
    /\ loading' = FALSE
    /\ IF r.status = "success"
       THEN /\ stage' = "interview"
            /\ record' = [status |-> "in_progress", transcript |-> "", writes |-> 0]
            /\ UNCHANGED interviewId
       ELSE UNCHANGED << interviewId, stage, record >>
    /\ UNCHANGED << job, candidateName, loadPc, ends, status, channel, msgVars,
                    attempts, stops >>
    /\ UNCHANGED << appVars, serviceVars >>

\* handleStartInterview from the create_interview response to the finally block.
createInterviewSettles(r) ==
    /\ createPc = "fetching"
    /\ createPc' = "idle"
    /\ loading' = FALSE
    /\ IF r.status = "success"
       THEN /\ interviewId' = r.id
            /\ stage' = "interview"
            /\ record' = [status |-> "in_progress", transcript |-> "", writes |-> 0]
       ELSE UNCHANGED << interviewId, stage, record >>
    /\ UNCHANGED << job, candidateName, loadPc, ends, status, channel, msgVars,
                    attempts, stops >>
    /\ UNCHANGED << appVars, serviceVars >>

\* handleInterviewEnd(transcript) up to the awaited update_interview request:
\* the runs of handleInterviewEnd after the call.
EndsAfterCall(t) ==
    IF ~Truthy(interviewId)
    THEN ends                                           \* if (!interviewId) return
    ELSE ends (+) One(NewEnd(t))

\* The clicks on 'Start Interview Call', 'End Call' and 'Back to Dashboard'
\* that have started a run: every run of startConversation and stopConversation
\* is one, and so is every run of handleInterviewEnd not started by a stop.
Clicks ==
    BagCardinality(attempts) + BagCardinality(stops) + BagCardinality(ends)
        - BagCardinality([s \in {x \in BagToSet(stops) : x.handed /\ Truthy(interviewId)}
                             |-> CopiesIn(s, stops)])

CanClick == Clicks < MaxClicks

UpdateResults == {"success", "errorBody", "httpError", "throws"}

\* Lines 116-121 of handleInterviewEnd: what follows the awaited fetch.
AfterUpdate(result) ==
    [complete |-> result # "throws", toast |-> result = "throws"]

\* handleInterviewEnd from the update_interview response on.  The backend
\* stores the update exactly when it answers with success.
updateInterviewSettles ==
    \E e \in Runs(ends), result \in UpdateResults :
    /\ e.pc = "fetching"
    /\ ends' = Replace(ends, e, [pc |-> "done", transcript |-> Absent,
                                 outcome |-> result,
                                 toasted |-> AfterUpdate(result).toast,
                                 tries |-> e.tries])
    /\ stage' = IF AfterUpdate(result).complete THEN "complete" ELSE stage
    /\ record' = IF result = "success"
                 THEN [status |-> "completed", transcript |-> e.transcript,
                       writes |-> record.writes + 1]
                 ELSE record
    /\ UNCHANGED << job, loading, candidateName, interviewId, loadPc, createPc,
                    status, channel, msgVars, attempts, stops >>
    /\ UNCHANGED << appVars, serviceVars >>

\* The 'Back to Dashboard' button of Interview: onEndInterview(), that is
\* handleInterviewEnd(undefined).
backToDashboard ==
    /\ BackOffered
    /\ CanClick
    /\ ends' = EndsAfterCall(Absent)
    /\ attempts' = BagMapFrom([x \in BagToSet(attempts) |->
                                  IF InFlight(x) THEN [x EXCEPT !.cancelled = TRUE] ELSE x],
                              attempts, BagToSet(attempts))
    /\ UNCHANGED << pageVars, record, status, channel, msgVars, stops >>
    /\ UNCHANGED << appVars, serviceVars >>

\* ------------------------------------------------ Interview: starting
\* Faulty variant: the refusal is reported but the start goes on to the signed URL.
AfterPermissionGoingOn(att, granted) ==
    IF granted
    THEN [att EXCEPT !.pc = "fetch", !.fetchSent = TRUE]
    ELSE [att EXCEPT !.pc = "fetch", !.fail = "permission", !.alerted = TRUE,
                     !.fetchSent = TRUE]

\* Line 44 and what follows it: getUserMedia resolved (granted) or rejected.
\* Granted: the code runs on to the awaited fetch of the signed URL.
\* Rejected: the outer catch (lines 96-99) alerts.
AfterPermission(att, granted) ==
    IF granted
    THEN [att EXCEPT !.pc = "fetch", !.fetchSent = TRUE]
    ELSE [att EXCEPT !.pc = "failed", !.fail = "permission", !.alerted = TRUE,
                     !.cancelled = FALSE]

\* Lines 64-99 after the awaited fetch: signedUrl is computed, then either
\* conversation.startSession is called or the outer catch alerts.
AfterFetch(att, r) ==
    LET res == FetchSignedUrl(r)
        req == SessionRequest(res.signedUrl)
    IN  IF res.raised \/ req.cred = "none"
        THEN [att EXCEPT !.pc = "failed", !.kind = ResponseKind(r),
                         !.fail = "credential", !.alerted = TRUE]
        ELSE [att EXCEPT !.pc = "session", !.kind = ResponseKind(r),
                         !.cred = req.cred, !.conn = req.connectionType,
                         !.sessionCalled = TRUE]

\* 'Start Interview Call': shown unless connected, disabled while connecting.
startConversation ==
    /\ StartOffered
    /\ CanClick
    /\ attempts' = attempts (+) One(NewAttempt)
    /\ UNCHANGED << pageVars, ends, record, status, channel, msgVars, stops >>
    /\ UNCHANGED << appVars, serviceVars >>

\* navigator.mediaDevices.getUserMedia settles.
getUserMediaSettles ==
    \E att \in Runs(attempts), granted \in BOOLEAN :
    /\ att.pc = "permission"
    /\ attempts' = Replace(attempts, att, AfterPermission(att, granted))
    /\ UNCHANGED << pageVars, ends, record, status, channel, msgVars, stops >>
    /\ UNCHANGED << appVars, serviceVars >>

\* The signed-URL fetch settles; startSession is called in the same step and
\* the SDK reports 'connecting' unless a session is already open.
signedUrlSettles ==
    \E att \in Runs(attempts), r \in Responses :
    /\ att.pc = "fetch"
    /\ attempts' = Replace(attempts, att, AfterFetch(att, r))
    /\ status' = IF AfterFetch(att, r).pc = "session" /\ status # "connected"
                 THEN "connecting" ELSE status
    /\ UNCHANGED << pageVars, ends, record, channel, msgVars, stops >>
    /\ UNCHANGED << appVars, serviceVars >>

\* conversation.startSession settles: the provider accepts or refuses.  The
\* response is dropped with the run's locals.
startSessionSettles ==
    \E att \in Runs(attempts), accepted \in BOOLEAN :
    /\ att.pc = "session"
    /\ IF accepted
       THEN /\ attempts' = Replace(attempts, att, [att EXCEPT !.pc = "done", !.kind = "none"])
            /\ status' = "connected"
            /\ channel' = att.conn
       ELSE /\ attempts' = Replace(attempts, att,
                              [att EXCEPT !.pc = "failed", !.kind = "none",
                                          !.fail = "session", !.alerted = TRUE,
                                          !.cancelled = FALSE])
            /\ status' = IF status = "connecting" THEN "disconnected" ELSE status
            /\ UNCHANGED channel
    /\ UNCHANGED << pageVars, ends, record, msgVars, stops >>
    /\ UNCHANGED << appVars, serviceVars >>

\* ------------------------------------------- Interview: provider events
\* Faulty variant: the new entry is put in front of the log.
onMessageNewestFirst(m, eager) ==
    /\ Mounted
    /\ status = "connected"
    /\ delivered < MaxMsgs
    /\ eager => queued = <<>>
    /\ delivered' = delivered + 1
    /\ IF eager
       THEN messagesRef' = << m >> \o messagesRef /\ UNCHANGED queued
       ELSE queued' = << m >> \o queued /\ UNCHANGED messagesRef
    /\ UNCHANGED << pageVars, ends, record, status, channel, attempts, stops >>
    /\ UNCHANGED << appVars, serviceVars >>

\* onMessage: setMessages(prev => ...).  React runs the updater at once when
\* nothing is pending for the component (eager) or at the next render.
onMessage(m, eager) ==
    /\ Mounted
    /\ status = "connected"
    /\ delivered < MaxMsgs
    /\ eager => queued = <<>>
    /\ delivered' = delivered + 1
    /\ IF eager
       THEN messagesRef' = Append(messagesRef, m) /\ UNCHANGED queued
       ELSE queued' = Append(queued, m) /\ UNCHANGED messagesRef
    /\ UNCHANGED << pageVars, ends, record, status, channel, attempts, stops >>
    /\ UNCHANGED << appVars, serviceVars >>

\* React renders Interview and runs the queued setMessages updaters in order.
render ==
    /\ Mounted
    /\ queued # <<>>
    /\ messagesRef' = messagesRef \o queued
    /\ queued' = <<>>
    /\ UNCHANGED << pageVars, ends, record, status, channel, delivered, attempts, stops >>
    /\ UNCHANGED << appVars, serviceVars >>

\* onDisconnect when the provider ends or drops a connected session: the
\* callback only logs (line 27).
onDisconnect ==
    /\ status = "connected"
    /\ status' = "disconnected"
    /\ channel' = "none"
    /\ UNCHANGED << pageVars, ends, record, msgVars, attempts, stops >>
    /\ UNCHANGED << appVars, serviceVars >>

\* ------------------------------------------------ Interview: stopping
\* 'End Call' (shown while connected): stopConversation up to the awaited
\* conversation.endSession().
stopConversation ==
    /\ EndCallOffered
    /\ CanClick
    /\ stops' = stops (+) One(NewStop)
    /\ status' = "disconnecting"
    /\ UNCHANGED << pageVars, ends, record, channel, msgVars, attempts >>
    /\ UNCHANGED << appVars, serviceVars >>

\* Faulty variant: the assembly consumes the log it reads.
endSessionResolvesDrainingLog ==
    \E s \in Runs(stops) :
    /\ s.pc = "ending"
    /\ stops' = Replace(stops, s, [pc |-> "done", handed |-> TRUE,
                                   transcript |-> Assemble(messagesRef)])
    /\ ends' = EndsAfterCall(Assemble(messagesRef))
    /\ status' = "disconnected"
    /\ channel' = "none"
    /\ messagesRef' = <<>>
    /\ UNCHANGED << pageVars, record, queued, delivered, attempts >>
    /\ UNCHANGED << appVars, serviceVars >>

\* conversation.endSession() resolves: lines 105-113, the transcript is built
\* from messagesRef.current and passed to onEndInterview (job-based interview).
endSessionResolves ==
    \E s \in Runs(stops) :
    /\ s.pc = "ending"
    /\ stops' = Replace(stops, s, [pc |-> "done", handed |-> TRUE,
                                   transcript |-> Assemble(messagesRef)])
    /\ ends' = EndsAfterCall(Assemble(messagesRef))
    /\ status' = "disconnected"
    /\ channel' = "none"
    /\ UNCHANGED << pageVars, record, msgVars, attempts >>
    /\ UNCHANGED << appVars, serviceVars >>

\* conversation.endSession() rejects: nothing catches it, stopConversation
\* ends there.  Whether the channel is still open is the SDK's business.
endSessionRejects ==
    \E s \in Runs(stops), open \in BOOLEAN :
    /\ s.pc = "ending"
    /\ stops' = Replace(stops, s, [s EXCEPT !.pc = "threw"])
    /\ status' = IF open THEN "connected" ELSE "disconnected"
    /\ channel' = IF open THEN channel ELSE "none"
    /\ UNCHANGED << pageVars, ends, record, msgVars, attempts >>
    /\ UNCHANGED << appVars, serviceVars >>

\* ------------------------------------------------- JobForm: the job input
Titles == {"", "Backend Engineer"}
SkillNames == {"Go", "Postgres"}
Difficulties == {"junior", "mid", "senior"}
Durations == {5, 10, 15}
CustomPrompts == {Absent, "Ask about on-call duty."}

RECURSIVE SkillLists(_)
\* handleAddSkill: the lists of up to n skills, none twice.
SkillLists(n) ==
    IF n = 0 THEN { <<>> }
    ELSE SkillLists(n - 1) \cup
         UNION { { Append(l, k) : k \in SkillNames \ { l[i] : i \in 1..Len(l) } } :
                 l \in { m \in SkillLists(n - 1) : Len(m) = n - 1 } }

\* The values of the form's fields (CreateJobRequest).
Forms ==
    [title : Titles, skills : SkillLists(MaxSkills), difficulty : Difficulties,
     interviewDuration : Durations, customPrompt : CustomPrompts]

EmptyForm ==
    [title |-> "", skills |-> <<>>, difficulty |-> "mid",
     interviewDuration |-> 10, customPrompt |-> Absent]

\* The job of Scenario A.
ScenarioA ==
    [title |-> "Backend Engineer", skills |-> << "Go", "Postgres" >>,
     difficulty |-> "senior", interviewDuration |-> 10, customPrompt |-> Absent]

\* handleSubmit and the disabled attribute of the submit button: the fields
\* that must be filled in (the description is always filled in here).
FormValid(f) == Truthy(f.title) /\ Len(f.skills) > 0

\* ------------------------------------------------- the prompt composer
\* The calibration of the technical segment.
Guidance(difficulty) ==
    IF difficulty = "junior" THEN "fundamentals and guided probing"
    ELSE IF difficulty = "mid" THEN "applied scenarios"
    ELSE "architecture, trade-offs and leadership"

NoInstructions == [error |-> "none", document |-> <<>>]

\* Faulty variant: the behavioral segment comes before the technical one.
ComposeBehavioralFirst(d) ==
    IF ~(Truthy(d.title) /\ Len(d.skills) > 0)
    THEN [error |-> "validation", document |-> <<>>]
    ELSE [error |-> "none",
          document |->
            << [movement |-> "role framing", names |-> << d.title, d.difficulty >>,
                guidance |-> "interviewer for the position"],
               [movement |-> "opening", names |-> <<>>,
                guidance |-> "brief rapport-building exchange"],
               [movement |-> "behavioral", names |-> <<>>,
                guidance |-> "structured-interview prompts"],
               [movement |-> "technical", names |-> d.skills,
                guidance |-> Guidance(d.difficulty)],
               [movement |-> "closing", names |-> << ToString(d.interviewDuration) >>,
                guidance |-> "invite questions, end near the duration"] >>
            \o (IF Truthy(d.customPrompt)
                THEN << [movement |-> "custom", names |-> << d.customPrompt >>,
                         guidance |-> "augments the five movements"] >>
                ELSE <<>>)]

\* PromptComposer: the instructions document for a job input, as a list of
\* sections; a missing title or an empty skill list is a validation error.
Compose(d) ==
    IF ~(Truthy(d.title) /\ Len(d.skills) > 0)
    THEN [error |-> "validation", document |-> <<>>]
    ELSE [error |-> "none",
          document |->
            << [movement |-> "role framing", names |-> << d.title, d.difficulty >>,
                guidance |-> "interviewer for the position"],
               [movement |-> "opening", names |-> <<>>,
                guidance |-> "brief rapport-building exchange"],
               [movement |-> "technical", names |-> d.skills,
                guidance |-> Guidance(d.difficulty)],
               [movement |-> "behavioral", names |-> <<>>,
                guidance |-> "structured-interview prompts"],
               [movement |-> "closing", names |-> << ToString(d.interviewDuration) >>,
                guidance |-> "invite questions, end near the duration"] >>
            \o (IF Truthy(d.customPrompt)
                THEN << [movement |-> "custom", names |-> << d.customPrompt >>,
                         guidance |-> "augments the five movements"] >>
                ELSE <<>>)]

\* ------------------------------------------- HRDashboard: creating a job
\* The dashboard as mounted: the job list is shown, nothing is in flight.
\*   pc     position of handleCreateJob ("posting": awaiting create_job)
\*   job    the id the backend gave the job of the pending request
\*   reply  the response on its way to the browser
\*   got    observation: how the last create_job request ended
NoReply == [status |-> "none", agentId |-> Absent]

NewHR ==
    [view |-> "jobs", loading |-> FALSE, pc |-> "idle", toast |-> "none",
     job |-> "none", reply |-> NoReply, got |-> "none", form |-> EmptyForm]

\* The job form open and filled in with f.
FormOpen(f) == [NewHR EXCEPT !.view = "create", !.form = f]

\* 'Create Job' of the job list: setView('create') mounts an empty JobForm.
setViewCreate ==
    /\ hr.view = "jobs"
    /\ hr' = [hr EXCEPT !.view = "create", !.form = EmptyForm]
    /\ UNCHANGED << jobStore, provisioning, interviewVars, appVars >>

\* The submit button of JobForm (disabled while loading or incomplete):
\* handleSubmit, then handleCreateJob up to the awaited create_job request.
handleCreateJob ==
    /\ hr.view = "create"
    /\ ~hr.loading
    /\ FormValid(hr.form)
    /\ hr' = [hr EXCEPT !.loading = TRUE, !.pc = "posting", !.job = "none",
                         !.reply = NoReply, !.got = "none"]
    /\ UNCHANGED << jobStore, provisioning, interviewVars, appVars >>

\* A request whose fetch or json() threw.
Thrown == [status |-> "throws", agentId |-> Absent]

\* Faulty variant: a job without a dedicated agent is reported as a failure.
AfterCreateJobNeedingAgent(h, r) ==
    IF r.status = "success" /\ Truthy(r.agentId)
    THEN [h EXCEPT !.toast = "Job created with dedicated AI agent!",
                   !.view = "jobs", !.form = EmptyForm,
                   !.loading = FALSE, !.pc = "idle", !.reply = NoReply, !.got = r.status]
    ELSE [h EXCEPT !.toast = "Failed to create job",
                   !.loading = FALSE, !.pc = "idle", !.reply = NoReply, !.got = r.status]

\* Lines 502-518 of handleCreateJob: the dashboard after the response r, or
\* after fetch or json() threw.  Going back to the job list unmounts the
\* form.
AfterCreateJob(h, r) ==
    IF r.status = "throws"
    THEN [h EXCEPT !.toast = "Failed to create job",
                   !.loading = FALSE, !.pc = "idle", !.reply = NoReply, !.got = r.status]
    ELSE IF r.status = "success"
    THEN [h EXCEPT !.toast = IF Truthy(r.agentId)
                             THEN "Job created with dedicated AI agent!"
                             ELSE "Job created successfully!",
                   !.view = "jobs", !.form = EmptyForm,
                   !.loading = FALSE, !.pc = "idle", !.reply = NoReply, !.got = r.status]
    ELSE [h EXCEPT !.toast = "Failed to create job",
                   !.loading = FALSE, !.pc = "idle", !.reply = NoReply, !.got = r.status]

\* handleCreateJob from the create_job response to the finally block.
createJobSettles ==
    \E net \in {"ok", "throws"} :
    /\ hr.pc = "posting"
    /\ net = "ok" => hr.reply # NoReply
    /\ hr' = AfterCreateJob(hr, IF net = "ok" THEN hr.reply ELSE Thrown)
    /\ UNCHANGED << jobStore, provisioning, interviewVars, appVars >>

\* ----------------------------------------- backend: agent provisioning
JobIds == {"job1", "job2"}

\* The job ids in use, and the id the next job gets.
Stored == DOMAIN jobStore
NextJobId == IF "job1" \notin Stored THEN "job1" ELSE "job2"

\* A provisioning call as requested: waiting for the job's turn.
\*   client   "hr": part of the create_job request of the dashboard
\*   mode     what it asks of the provider: create, update or delete
NewCall(j, op, client) ==
    [job |-> j, op |-> op, client |-> client, pc |-> "waiting", mode |-> "none",
     outcome |-> "none", instructions |-> NoInstructions]

\* A call that is over.
Over ==
    [job |-> "none", op |-> "none", client |-> "none", pc |-> "done",
     mode |-> "none", outcome |-> "none", instructions |-> NoInstructions]

OpsLeft == BagCardinality(provisioning) < MaxOps

\* create_job: the job is stored without an agent profile and its
\* provisioning is requested; or the store fails and the request is answered
\* with an error.
create_job(client, stored) ==
    /\ Stored # JobIds
    /\ OpsLeft
    /\ client = "hr" => hr.pc = "posting" /\ hr.job = "none" /\ hr.reply = NoReply
    /\ client = "api" => stored
    /\ IF stored
       THEN /\ jobStore' = (NextJobId :> [data |-> IF client = "hr" THEN hr.form
                                                   ELSE ScenarioA,
                                          profile |-> Absent]) @@ jobStore
            /\ provisioning' = provisioning (+) One(NewCall(NextJobId, "provision", client))
            /\ hr' = IF client = "hr" THEN [hr EXCEPT !.job = NextJobId] ELSE hr
       ELSE /\ hr' = [hr EXCEPT !.reply = [status |-> "error", agentId |-> Absent]]
            /\ UNCHANGED << jobStore, provisioning >>
    /\ UNCHANGED << interviewVars, appVars >>

\* The management endpoints: reprovision(job, newInstructions) and
\* deprovision(job) of a job that create_job has answered for (its id is
\* known to no caller before).
request(j, op) ==
    /\ j \in Stored
    /\ \A c \in Runs(provisioning) : ~(c.job = j /\ c.op = "provision")
    /\ OpsLeft
    /\ provisioning' = provisioning (+) One(NewCall(j, op, "api"))
    /\ UNCHANGED << hr, jobStore, interviewVars, appVars >>

\* Faulty variant: nothing keeps two calls for one job apart.
MayEnterUnguarded(c) == c.pc = "waiting"

\* The per-job mutual exclusion: a waiting call goes on when no other call
\* for its job is between its start and the write of its result.
MayEnter(c) ==
    /\ c.pc = "waiting"
    /\ \A d \in Runs(provisioning) : d.job = c.job => d.pc \notin {"calling", "answered"}

\* What a call asks of the provider: provision and reprovision create the
\* agent when the job has none, reprovision updates the one it has.
ModeOf(op, profile) ==
    IF op = "deprovision" THEN "delete"
    ELSE IF Truthy(profile) THEN "update" ELSE "create"

\* The instructions a call sends: composed from the job for provision, given
\* by the caller for reprovision.
InstructionsOf(op, data) ==
    IF op = "provision" THEN Compose(data)
    ELSE IF op = "reprovision"
         THEN [error |-> "none",
               document |-> << [movement |-> "custom", names |-> << "new instructions" >>,
                                guidance |-> "given by the caller"] >>]
    ELSE NoInstructions

\* A call takes its turn: it reads the job, composes the instructions and
\* calls the provider; a validation error ends it at once.
enter ==
    \E c \in Runs(provisioning) :
    /\ MayEnter(c)
    /\ LET ins == InstructionsOf(c.op, jobStore[c.job].data)
       IN  provisioning' =
             Replace(provisioning, c,
                     [c EXCEPT !.pc = IF ins.error = "none" THEN "calling" ELSE "answered",
                               !.outcome = IF ins.error = "none" THEN "none" ELSE "failure",
                               !.mode = ModeOf(c.op, jobStore[c.job].profile),
                               !.instructions = ins])
    /\ UNCHANGED << hr, jobStore, interviewVars, appVars >>

\* The provider answers, or the timeout of the call passes.
providerAnswers ==
    \E c \in Runs(provisioning), outcome \in {"success", "failure", "timeout"} :
    /\ c.pc = "calling"
    /\ provisioning' = Replace(provisioning, c,
                               [c EXCEPT !.pc = "answered", !.outcome = outcome])
    /\ UNCHANGED << hr, jobStore, interviewVars, appVars >>

\* An agent id the provider issues: one the job does not hold.
FreshAgentId(j, old) == IF old = j \o "-agentA" THEN j \o "-agentB" ELSE j \o "-agentA"

\* Faulty variant: a failed attempt wipes the stored profile.
ProfileAfterLosingOnFailure(c, old, rotate) ==
    IF c.op = "deprovision" THEN Absent
    ELSE IF c.outcome # "success" THEN Absent
    ELSE IF c.mode = "create" THEN FreshAgentId(c.job, old)
    ELSE IF rotate THEN FreshAgentId(c.job, old) ELSE old

\* The agent profile of the job after the answered call c: deprovision clears
\* it whatever the provider said; a failed or timed-out call leaves it; a
\* successful create stores the new agent; a successful update keeps the
\* agent or, when the provider rotates the identifier, stores the new one.
ProfileAfter(c, old, rotate) ==
    IF c.op = "deprovision" THEN Absent
    ELSE IF c.outcome # "success" THEN old
    ELSE IF c.mode = "create" THEN FreshAgentId(c.job, old)
    ELSE IF rotate THEN FreshAgentId(c.job, old) ELSE old

\* The result of an answered call is written to the job and the call is
\* over; a call made for create_job answers the dashboard's request.
applyResult ==
    \E c \in Runs(provisioning), rotate \in BOOLEAN :
    /\ c.pc = "answered"
    /\ rotate => c.mode = "update" /\ c.outcome = "success"
    /\ LET new == ProfileAfter(c, jobStore[c.job].profile, rotate)
       IN  /\ jobStore' = [jobStore EXCEPT ![c.job].profile = new]
           /\ hr' = IF c.client = "hr" /\ hr.pc = "posting" /\ hr.job = c.job
                    THEN [hr EXCEPT !.reply = [status |-> "success", agentId |-> new]]
                    ELSE hr
    /\ provisioning' = Replace(provisioning, c, Over)
    /\ UNCHANGED << interviewVars, appVars >>

\* No job is stored, no call was made, the dashboard shows the job list.
ServiceInit ==
    /\ hr = NewHR
    /\ jobStore = << >>
    /\ provisioning = EmptyBag

\* The job of the share link is stored, without an agent profile.
ServiceWithJob ==
    /\ hr = NewHR
    /\ jobStore = ("job1" :> [data |-> ScenarioA, profile |-> Absent])
    /\ provisioning = EmptyBag

ProvisioningInit == InterviewInit /\ CandidateApp /\ ServiceInit

ProvisioningNext ==
    \/ create_job("api", TRUE)
    \/ \E j \in JobIds, op \in {"reprovision", "deprovision"} : request(j, op)
    \/ enter
    \/ providerAnswers
    \/ applyResult

ProvisioningSpec == ProvisioningInit /\ [][ProvisioningNext]_vars

\* ------------------------------- a job from its creation to an interview
\* SessionBroker, step 1: the agent a credential is issued for.
ResolveAgent(jobScoped, profile) ==
    IF jobScoped /\ Truthy(profile) THEN profile ELSE agentId

\* The agent a session opened with credential cred talks to, for a job with
\* the given profile: a signed URL leads to the agent the backend resolved for
\* the job (job_id is sent, lines 54-55), the fallback to the agent id that
\* startSession is given (lines 86-92).
SessionAgent(cred, profile) ==
    IF cred = "signed" THEN ResolveAgent(TRUE, profile)
    ELSE SessionRequest(Absent).target

\* loadJob for the share link of the first job: the link is copied from the
\* job list (copyShareLink), which shows the job once create_job has
\* answered.
loadSharedJob ==
    \E r \in LoadJobResults :
    /\ hr.view = "jobs"
    /\ "job1" \in Stored
    /\ loadJob(r)

\* The job form is filled in with the job of Scenario A; no job is stored;
\* the candidate's page is as it mounts, once the link is opened.
JobInit ==
    /\ InterviewInit
    /\ CandidateApp
    /\ hr = FormOpen(ScenarioA)
    /\ jobStore = << >>
    /\ provisioning = EmptyBag

JobNext ==
    \/ handleCreateJob
    \/ \E stored \in BOOLEAN : create_job("hr", stored)
    \/ enter
    \/ providerAnswers
    \/ applyResult
    \/ createJobSettles
    \/ loadSharedJob
    \/ \E n \in Names : setCandidateName(n)
    \/ handleStartInterview
    \/ \E r \in CreateResults : createInterviewSettles(r)
    \/ startConversation
    \/ getUserMediaSettles
    \/ signedUrlSettles
    \/ startSessionSettles

JobSpec == JobInit /\ [][JobNext]_vars

\* ------------------------------------- job inputs through the composer
\* The job form is open and filled in with any of its values; the job is
\* submitted, stored and provisioned with the instructions composed for it.
ComposerInit ==
    /\ InterviewInit
    /\ CandidateApp
    /\ \E f \in Forms : hr = FormOpen(f)
    /\ jobStore = << >>
    /\ provisioning = EmptyBag

ComposerNext ==
    \/ setViewCreate
    \/ handleCreateJob
    \/ \E stored \in BOOLEAN : create_job("hr", stored)
    \/ enter
    \/ providerAnswers
    \/ applyResult
    \/ createJobSettles

ComposerSpec == ComposerInit /\ [][ComposerNext]_vars

\* ------------------------------------------------------- App: the routes
Users == {"hr1"}
Paths == {"/", "/hr", "/interview/tok1", "/interview-detail/iv1", "/dashboard"}

\* The <Route> a path matches; "/dashboard" (InterviewDetail's way back)
\* matches none but the catch-all.
RouteOf(path) ==
    IF Len(path) > 11 /\ SubSeq(path, 1, 11) = "/interview/" THEN "public"
    ELSE IF path = "/" THEN "root"
    ELSE IF path = "/hr" THEN "hr"
    ELSE IF path = "/interview-detail/iv1" THEN "detail"
    ELSE "other"

\* Faulty variant: the dashboard route forgets to look at the session.
ElementUnguardedDashboard(path, user) ==
    IF RouteOf(path) = "public" THEN [screen |-> "PublicInterview", to |-> Absent]
    ELSE IF RouteOf(path) = "root"
         THEN IF user = "none" THEN [screen |-> "Login", to |-> Absent]
              ELSE [screen |-> "Navigate", to |-> "/hr"]
    ELSE IF RouteOf(path) = "hr" THEN [screen |-> "HRDashboard", to |-> Absent]
    ELSE IF RouteOf(path) = "detail"
         THEN IF user # "none" THEN [screen |-> "InterviewDetail", to |-> Absent]
              ELSE [screen |-> "Navigate", to |-> "/"]
    ELSE [screen |-> "Navigate", to |-> "/"]

\* Lines 51-95: the element <Routes> renders for a path and a session.
Element(path, user) ==
    IF RouteOf(path) = "public" THEN [screen |-> "PublicInterview", to |-> Absent]
    ELSE IF RouteOf(path) = "root"
         THEN IF user = "none" THEN [screen |-> "Login", to |-> Absent]
              ELSE [screen |-> "Navigate", to |-> "/hr"]
    ELSE IF RouteOf(path) = "hr"
         THEN IF user # "none" THEN [screen |-> "HRDashboard", to |-> Absent]
              ELSE [screen |-> "Navigate", to |-> "/"]
    ELSE IF RouteOf(path) = "detail"
         THEN IF user # "none" THEN [screen |-> "InterviewDetail", to |-> Absent]
              ELSE [screen |-> "Navigate", to |-> "/"]
    ELSE [screen |-> "Navigate", to |-> "/"]

RECURSIVE Resolve(_, _)
\* <Navigate to=... replace />: the path the router ends on.
Resolve(path, user) ==
    IF Element(path, user).screen = "Navigate"
    THEN Resolve(Element(path, user).to, user)
    ELSE path

\* The history stack once the routes have rendered: every Navigate replaces
\* the current entry.
Routed(h, user) == [h EXCEPT ![Len(h)] = Resolve(h[Len(h)], user)]

\* What App renders (lines 40-97).
Screen ==
    IF authLoading THEN "Loading"
    ELSE Element(history[Len(history)], session).screen

\* The callback of onAuthStateChanged (lines 25-28), fired at start-up and at
\* every sign-in and sign-out; the routes are rendered with the new session.
authStateChanged(user) ==
    /\ authLoading \/ user # session
    /\ session' = user
    /\ authLoading' = FALSE
    /\ history' = Routed(history, user)
    /\ UNCHANGED << interviewVars, serviceVars >>

\* A page load (address bar, share link, window.location.href): App mounts
\* anew with session null and loading true.
openPage(path) ==
    /\ Len(history) < MaxHistory
    /\ history' = Append(history, path)
    /\ session' = "none"
    /\ authLoading' = TRUE
    /\ UNCHANGED << interviewVars, serviceVars >>

\* navigate('/dashboard') of InterviewDetail: a client-side navigation.
navigateToDashboard ==
    /\ Screen = "InterviewDetail"
    /\ Len(history) < MaxHistory
    /\ history' = Routed(Append(history, "/dashboard"), session)
    /\ UNCHANGED << session, authLoading, interviewVars, serviceVars >>

\* The browser's back button.
goBack ==
    /\ Len(history) > 1
    /\ history' = IF authLoading
                  THEN SubSeq(history, 1, Len(history) - 1)
                  ELSE Routed(SubSeq(history, 1, Len(history) - 1), session)
    /\ UNCHANGED << session, authLoading, interviewVars, serviceVars >>

RouterInit ==
    /\ InterviewInit
    /\ ServiceInit
    /\ session = "none"
    /\ authLoading = TRUE
    /\ history \in { << p >> : p \in Paths }

RouterNext ==
    \/ \E u \in Users \cup {"none"} : authStateChanged(u)
    \/ \E p \in Paths : openPage(p)
    \/ navigateToDashboard
    \/ goBack

RouterSpec == RouterInit /\ [][RouterNext]_vars

\* ------------------------------------------ PublicInterview: the share token
ShareTokens == {"tok1", "tok2"}

\* useParams: the :shareToken of the current path.
shareToken == SubSeq(history[Len(history)], 12, Len(history[Len(history)]))

\* The router moves to the interview path of another share token: the same
\* PublicInterview instance gets the new param and the effect on [shareToken]
\* (lines 26-28) runs loadJob again, up to its awaited request; loadJob does
\* not touch the loading flag before that.  The previous run of loadJob is
\* over.
shareTokenChanges(t) ==
    /\ RouteOf(history[Len(history)]) = "public"
    /\ t # shareToken
    /\ Len(history) < MaxHistory
    /\ loadPc = "done"
    /\ history' = Append(history, "/interview/" \o t)
    /\ loadPc' = "fetching"
    /\ UNCHANGED << job, loading, stage, candidateName, interviewId, createPc, ends,
                    record, status, channel, msgVars, attempts, stops >>
    /\ UNCHANGED << session, authLoading, serviceVars >>

\* ---------------------------------------------------------- specification

Next ==
    \/ \E r \in LoadJobResults : loadJob(r)
    \/ \E n \in Names : setCandidateName(n)
    \/ handleStartInterview
    \/ \E r \in CreateResults : createInterviewSettles(r)
    \/ backToDashboard
    \/ updateInterviewSettles
    \/ startConversation
    \/ getUserMediaSettles
    \/ signedUrlSettles
    \/ startSessionSettles
    \/ \E m \in Messages, eager \in BOOLEAN : onMessage(m, eager)
    \/ render
    \/ onDisconnect
    \/ stopConversation
    \/ endSessionResolves
    \/ endSessionRejects

Init == InterviewInit /\ CandidateApp /\ ServiceWithJob

Spec == Init /\ [][Next]_vars

\* ------------------------------------------ the page under token changes
\* PublicInterview alone: job loads, the name field, the start and the end
\* of the interview, and changes of the share token.
PageNext ==
    \/ \E r \in LoadJobResults : loadJob(r)
    \/ \E n \in Names : setCandidateName(n)
    \/ handleStartInterview
    \/ \E r \in CreateResults : createInterviewSettles(r)
    \/ backToDashboard
    \/ updateInterviewSettles
    \/ \E t \in ShareTokens : shareTokenChanges(t)

PageSpec == Init /\ [][PageNext]_vars

\* ------------------------------------------- the assembler on its inputs
\* stopConversation applied to every event log of up to MaxLog entries: the
\* Interview component is connected with the log in messagesRef.current, the
\* candidate presses 'End Call' and endSession resolves.

\* Entries the provider can have delivered: Messages, a second speaker, and a
\* reply whose text holds a line break.
Entries ==
    Messages \cup
    { [role |-> "user", message |-> "Hi", text |-> Absent],
      [role |-> "agent", message |-> "One\nTwo", text |-> Absent] }

RECURSIVE LogsOfLen(_)
LogsOfLen(n) ==
    IF n = 0 THEN { <<>> }
    ELSE { Append(l, e) : l \in LogsOfLen(n - 1), e \in Entries }

Logs == UNION { LogsOfLen(n) : n \in 0..MaxLog }

\* The run of startConversation that opened the session.
DoneAttempt(conn) ==
    [NewAttempt EXCEPT !.pc = "done",
                       !.cred = IF conn = "websocket" THEN "signed" ELSE "fallback",
                       !.conn = conn, !.fetchSent = TRUE, !.sessionCalled = TRUE]

AssemblerInit ==
    /\ job = "job1"
    /\ loading = FALSE
    /\ stage = "interview"
    /\ candidateName = "Ann"
    /\ interviewId = "iv1"
    /\ loadPc = "done"
    /\ createPc = "idle"
    /\ ends = EmptyBag
    /\ record = [status |-> "in_progress", transcript |-> "", writes |-> 0]
    /\ status = "connected"
    /\ channel \in {"websocket", "webrtc"}
    /\ messagesRef \in Logs
    /\ queued = <<>>
    /\ delivered = Len(messagesRef)
    /\ attempts = One(DoneAttempt(channel))
    /\ stops = EmptyBag
    /\ CandidateApp
    /\ ServiceWithJob

AssemblerNext ==
    \/ stopConversation
    \/ endSessionResolves
    \/ updateInterviewSettles

AssemblerSpec == AssemblerInit /\ [][AssemblerNext]_vars

\* ------------------------------------------ a later session of the instance
\* The log of an earlier session of the Interview instance: the agent said
\* Hello, then the provider dropped the session.
EarlierLog == << [role |-> "agent", message |-> "Hello", text |-> Absent] >>

\* The instance after that session: still mounted (onDisconnect only logs),
\* 'Start Interview Call' is shown again, the log is as the session left it;
\* the run of startConversation that opened the session is over.
LaterSessionInit ==
    /\ job = "job1"
    /\ loading = FALSE
    /\ stage = "interview"
    /\ candidateName = "Ann"
    /\ interviewId = "iv1"
    /\ loadPc = "done"
    /\ createPc = "idle"
    /\ ends = EmptyBag
    /\ record = [status |-> "in_progress", transcript |-> "", writes |-> 0]
    /\ status = "disconnected"
    /\ channel = "none"
    /\ messagesRef = EarlierLog
    /\ queued = <<>>
    /\ delivered = Len(EarlierLog)
    /\ attempts = EmptyBag
    /\ stops = EmptyBag
    /\ CandidateApp
    /\ ServiceWithJob

LaterSessionNext ==
    \/ startConversation
    \/ getUserMediaSettles
    \/ signedUrlSettles
    \/ startSessionSettles
    \/ \E m \in Messages, eager \in BOOLEAN : onMessage(m, eager)
    \/ render
    \/ onDisconnect
    \/ stopConversation
    \/ endSessionResolves
    \/ endSessionRejects
    \/ backToDashboard
    \/ updateInterviewSettles

LaterSessionSpec == LaterSessionInit /\ [][LaterSessionNext]_vars

\* ------------------------------------------------------------- the claims
\* C1: whatever the signed-URL request gives back (fetch throws, non-OK
\* status, malformed body, error field, neither field, signed_url), the
\* credential step ends with startSession called on a signed URL or on the
\* fallback agent id, signed exactly for a usable signed_url; nothing is
\* raised to the outer catch and no alert is shown for it.
CredentialIsSignedOrFallback ==
    \A a \in Runs(attempts) :
        /\ a.fail # "credential"
        /\ a.kind # "none" =>
              /\ a.pc = "session"
              /\ a.sessionCalled
              /\ a.cred \in {"signed", "fallback"}
              /\ a.cred = "signed" <=> a.kind = "signed"
              /\ ~a.alerted
        /\ a.pc \in {"session", "done"} => a.cred \in {"signed", "fallback"}

\* C1 witness: a malformed body has been answered by the fallback.
CredentialFallbackReached ==
    \E a \in Runs(attempts) :
        a.kind = "malformed" /\ a.cred = "fallback" /\ a.pc = "session"

\* C2: a start attempt whose microphone request was refused has failed with
\* the alert shown, has sent no signed-URL request and has not called
\* startSession; it stays as it is, and the step that refuses it starts no
\* new attempt.
PermissionDeniedEndsAttempt ==
    /\ [](\A a \in Runs(attempts) :
            a.fail = "permission" =>
                /\ a.pc = "failed"
                /\ a.alerted
                /\ ~a.fetchSent
                /\ ~a.sessionCalled
                /\ a.cred = "none")
    /\ [][/\ \A a \in Runs(attempts) :
                a.fail = "permission" => CopiesIn(a, attempts') >= CopiesIn(a, attempts)
          /\ (\E a \in Runs(attempts') :
                a.fail = "permission" /\ CopiesIn(a, attempts') > CopiesIn(a, attempts))
             => BagCardinality(attempts') = BagCardinality(attempts)]_vars

\* C2 witness: an attempt has been refused the microphone.
PermissionDeniedReached ==
    \E a \in Runs(attempts) : a.fail = "permission" /\ a.alerted

\* C3: after an HTTP error on the signed-URL request startSession has been
\* called with the agent id over webrtc and no alert is shown; when the
\* provider accepts a session the status becomes connected on the channel
\* asked for; an attempt only fails for a refused microphone or a refused
\* session.
HttpErrorFallsBackAndConnects ==
    /\ [](\A a \in Runs(attempts) :
            /\ a.kind = "httpError" =>
                  /\ a.pc = "session"
                  /\ a.cred = "fallback"
                  /\ a.conn = "webrtc"
                  /\ ~a.alerted
            /\ a.pc = "failed" => a.fail \in {"permission", "session"})
    /\ [][\A a \in Runs(attempts) :
            (a.pc = "session" /\
             attempts' = Replace(attempts, a, [a EXCEPT !.pc = "done", !.kind = "none"])) =>
                /\ status' = "connected"
                /\ channel' = a.conn
                /\ (a.kind = "httpError" => channel' = "webrtc")]_vars

\* C3 witness: the fallback session is being opened after an HTTP error.
HttpErrorFallbackReached ==
    \E a \in Runs(attempts) :
        /\ a.kind = "httpError"
        /\ a.pc = "session"
        /\ a.conn = "webrtc"
        /\ status = "connecting"

\* C4: at most one update_interview request (each carries status completed
\* and a transcript) is sent for the interview, and the stored record is
\* written at most once.
CompletedWrittenOnce ==
    /\ BagCardinality(ends) <= 1
    /\ record.writes <= 1

\* C5: a run of stopConversation that is over, whatever endSession did, has
\* assembled the transcript and handed it to onEndInterview.
EndCallHandsTranscriptOn ==
    \A s \in Runs(stops) : s.pc \in {"done", "threw"} => s.handed

\* C6: an attempt that was in flight when the candidate pressed 'Back to
\* Dashboard' never lands in connected.
CancelledAttemptNeverConnects ==
    \A a \in Runs(attempts) : a.cancelled => a.pc # "done"

\* C7: when the provider ends a connected session (the status goes from
\* connected to disconnected without End Call), that step starts the ending:
\* a run of stopConversation or of handleInterviewEnd begins.
ProviderDropStartsEnding ==
    [][(status = "connected" /\ status' = "disconnected") =>
          \/ BagCardinality(stops') > BagCardinality(stops)
          \/ BagCardinality(ends') > BagCardinality(ends)]_vars

\* C8: once a session of the instance has been connected, no run of
\* startConversation begins.
NoStartAfterConnected ==
    [][(\E a \in Runs(attempts) : a.pc = "done") =>
          BagCardinality(attempts') <= BagCardinality(attempts)]_vars

\* C9: the stage is 'complete' only when the backend has confirmed the
\* update_interview write: the record is stored as completed.
CompleteOnlyAfterConfirmedWrite ==
    stage = "complete" =>
        /\ record.status = "completed"
        /\ \E e \in Runs(ends) : e.outcome = "success"

\* C10: the error toast of handleInterviewEnd is shown only after the write
\* has been attempted at least twice.
ErrorOnlyAfterRetry ==
    \A e \in Runs(ends) : e.toasted => e.tries >= 2

\* ----------------------------------------------------- transcript claims
RECURSIVE SplitFrom(_, _, _)
\* The pieces of s between line breaks, from position i on, the current piece
\* starting at start.
SplitFrom(s, start, i) ==
    IF i > Len(s) THEN << SubSeq(s, start, Len(s)) >>
    ELSE IF SubSeq(s, i, i) = "\n"
         THEN << SubSeq(s, start, i - 1) >> \o SplitFrom(s, i + 1, i + 1)
         ELSE SplitFrom(s, start, i + 1)

\* The lines of a transcript.
SplitLines(s) == SplitFrom(s, 1, 1)

\* No text of the log holds a line break.
NoBreaks(log) == \A i \in 1..Len(log) : Len(SplitLines(Text(log[i]))) = 1

\* The transcript t is the log, line for line: as many lines as entries, the
\* i-th line being "<role>: <text>" of the i-th entry; empty for the empty log.
LineForLine(t, log) ==
    IF log = <<>> THEN t = ""
    ELSE /\ Len(SplitLines(t)) = Len(log)
         /\ \A i \in 1..Len(log) :
               SplitLines(t)[i] = Role(log[i]) \o ": " \o Text(log[i])

\* C11 as stated: the transcript a finished End Call has assembled holds
\* exactly one line per entry of the event log, each "<role>: <text>", in
\* append order; the empty log gives the empty string.
TranscriptIsLineForLine ==
    \A s \in Runs(stops) : s.pc = "done" => LineForLine(s.transcript, messagesRef)

\* C11 amended: for an event log whose texts hold no line break, the
\* transcript a finished End Call has assembled holds exactly one line per
\* entry, each "<role>: <text>", in append order, none dropped, repeated or
\* merged; the empty log gives the empty string; the log of the example
\* gives "interviewer: Hello\ncandidate: Hi".
UnbrokenTranscriptIsLineForLine ==
    /\ \A s \in Runs(stops) :
          (s.pc = "done" /\ NoBreaks(messagesRef)) => LineForLine(s.transcript, messagesRef)
    /\ Assemble(<< [role |-> "interviewer", message |-> "Hello", text |-> Absent],
                   [role |-> "candidate", message |-> "Hi", text |-> Absent] >>)
          = "interviewer: Hello\ncandidate: Hi"

\* C11 witness: End Call has assembled a log of three entries without line
\* breaks, two of them equal and adjacent.
RepeatedEntriesAssembled ==
    \E s \in Runs(stops) :
        /\ s.pc = "done"
        /\ Len(messagesRef) = 3
        /\ NoBreaks(messagesRef)
        /\ messagesRef[1] = messagesRef[2]
        /\ s.transcript # ""

RefusedSessionNeverCompleted ==
    (/\ \E a \in Runs(attempts) : a.fail = "session"
     /\ \A a \in Runs(attempts) : a.pc # "done")
    => /\ \A a \in Runs(attempts) : a.fail = "session" => a.alerted
       /\ stage # "complete"
       /\ record.status # "completed"

\* The state of the session machine the candidate is looking at.
MachineState ==
    IF stage = "complete" THEN "Completed"
    ELSE IF ~Mounted THEN "none"
    ELSE IF status = "connected" THEN "Connected"
    ELSE IF status = "disconnecting" THEN "Ending"
    ELSE IF status = "connecting" THEN "Connecting"
    ELSE IF \E a \in Runs(attempts) : a.pc \in {"fetch", "session"} THEN "Connecting"
    ELSE IF \E a \in Runs(attempts) : a.pc = "permission" THEN "RequestingPermission"
    ELSE IF \E a \in Runs(attempts) : a.pc = "failed" THEN "Failed"
    ELSE "Idle"

\* Some control whose click changes the state is offered.
ActionOffered == StartOffered \/ EndCallOffered \/ BackChangesState

\* C14 as stated: idle, requesting permission, connecting, connected and
\* ending each offer the candidate a state-changing action; Completed and
\* Failed offer none.
OnlyCompletedAndFailedAreDeadEnds ==
    /\ MachineState \in {"Idle", "RequestingPermission", "Connecting",
                          "Connected", "Ending"} => ActionOffered
    /\ MachineState \in {"Completed", "Failed"} => ~ActionOffered

\* C14 amended: Completed offers the candidate no action.  Failed offers
\* Start again, as do idle, requesting permission, ending and connecting
\* until the provider reports 'connecting'; connected offers End Call; while
\* the provider reports 'connecting' only 'Back to Dashboard' is offered,
\* which changes the state when the interview has an id.
OnlyCompletedIsDeadEnd ==
    /\ MachineState = "Completed" => ~ActionOffered
    /\ MachineState \in {"Idle", "RequestingPermission", "Ending", "Failed"} => StartOffered
    /\ MachineState = "Connected" => EndCallOffered
    /\ MachineState = "Connecting" =>
          IF status = "connecting"
          THEN /\ ~StartOffered /\ ~EndCallOffered
               /\ ActionOffered <=> Truthy(interviewId)
          ELSE StartOffered

\* C14 witness: an attempt has failed, nothing is in progress and the Start
\* button is offered.
RetryOfferedAfterFailure ==
    /\ MachineState = "Failed"
    /\ StartOffered
    /\ \E a \in Runs(attempts) : a.fail = "session"

\* The start attempts waiting for the answer to the signed-URL request.
AwaitingSignedUrl(atts) ==
    BagCardinality([a \in { x \in BagToSet(atts) : x.pc = "fetch" } |-> CopiesIn(a, atts)])

\* C16: an attempt that waits for the signed URL does not depend on the
\* backend to go on: in every state where one waits, some step other than
\* the settling of the signed-URL request takes an attempt out of waiting.
SilentBackendStillFallsBack ==
    AwaitingSignedUrl(attempts) > 0 =>
        ENABLED (/\ Next
                 /\ ~signedUrlSettles
                 /\ AwaitingSignedUrl(attempts') < AwaitingSignedUrl(attempts))

\* ---------------------------------------------------------- route claims
CurrentPath == history[Len(history)]

\* C17: the public interview page is what the share link shows with and
\* without a session (it is never redirected away, and it is on the screen as
\* soon as the authentication state is known), while the HR dashboard and the
\* interview detail are on the screen only with a session: without one the
\* router has replaced their paths by the login page's.
PublicAlwaysProtectedNeverWithoutSession ==
    /\ RouteOf(CurrentPath) = "public" =>
          /\ \A u \in Users \cup {"none"} :
                /\ Resolve(CurrentPath, u) = CurrentPath
                /\ Element(CurrentPath, u).screen = "PublicInterview"
          /\ ~authLoading => Screen = "PublicInterview"
    /\ Screen \in {"HRDashboard", "InterviewDetail"} => session # "none"
    /\ (~authLoading /\ session = "none") =>
          /\ RouteOf(CurrentPath) \in {"public", "root"}
          /\ RouteOf(CurrentPath) = "root" => Screen = "Login"

\* Signed out, the share link is opened from the login page and the public
\* interview is shown.
PublicInterviewShownSignedOut ==
    /\ ~authLoading
    /\ session = "none"
    /\ Len(history) > 1
    /\ history[Len(history) - 1] = "/"
    /\ Screen = "PublicInterview"

\* ------------------------------------------------------ service claims
\* C15: when the provisioning of a new job fails or times out, the job is
\* stored without an agent profile and create_job answers with success and
\* no agent id; the dashboard treats such an answer as a success (success
\* toast, back to the job list).  For a job without an agent profile every
\* start attempt that got past the signed-URL request has called
\* startSession, with the fallback agent id over webrtc when no signed URL
\* came, and none has failed for its credential.
JobWithoutAgentStillInterviews ==
    /\ [](("job1" \in Stored /\ ~Truthy(jobStore["job1"].profile)) =>
             \A a \in Runs(attempts) :
                 /\ a.fail # "credential"
                 /\ a.kind # "none" =>
                       /\ a.pc = "session"
                       /\ a.sessionCalled
                       /\ a.kind # "signed" => a.cred = "fallback" /\ a.conn = "webrtc")
    /\ [][(hr.pc = "posting" /\ hr.reply.status = "success" /\ hr'.got = "success")
            => /\ hr'.view = "jobs"
               /\ hr'.toast = IF Truthy(hr.reply.agentId)
                               THEN "Job created with dedicated AI agent!"
                               ELSE "Job created successfully!"]_vars
    /\ [][\A c \in Runs(provisioning) :
            (/\ c.pc = "answered"
             /\ c.op = "provision"
             /\ c.outcome # "success"
             /\ provisioning' = Replace(provisioning, c, Over))
            => /\ c.job \in DOMAIN jobStore'
               /\ jobStore'[c.job].profile = Absent
               /\ (hr.pc = "posting" /\ hr.job = c.job) =>
                     hr'.reply = [status |-> "success", agentId |-> Absent]]_vars

\* C15 witness: the job was created while its provisioning failed, the
\* dashboard reported success, and a candidate is connected through the
\* fallback agent id.
FallbackInterviewForJobWithoutAgent ==
    /\ hr.got = "success"
    /\ hr.toast = "Job created successfully!"
    /\ "job1" \in Stored
    /\ jobStore["job1"].profile = Absent
    /\ status = "connected"
    /\ channel = "webrtc"
    /\ \E a \in Runs(attempts) : a.pc = "done" /\ a.cred = "fallback"

\* The provisioning calls of job j between their start and the write of their
\* result.
CallsInFlight(j) ==
    BagCardinality([c \in { x \in BagToSet(provisioning) :
                               x.job = j /\ x.pc \in {"calling", "answered"} }
                       |-> CopiesIn(c, provisioning)])

\* C18: at any time at most one provisioning call per job id is in flight,
\* and a waiting call is held back by calls of its own job only: the calls of
\* other jobs do not keep it from starting.
ProvisioningSerializedPerJob ==
    /\ \A j \in JobIds : CallsInFlight(j) <= 1
    /\ \A c \in Runs(provisioning) :
          (c.pc = "waiting" /\ CallsInFlight(c.job) = 0) => MayEnter(c)

\* Calls for both jobs are in flight at once while a second call for job1
\* waits for its turn.
TwoJobsInFlightOneCallWaiting ==
    /\ CallsInFlight("job1") = 1
    /\ CallsInFlight("job2") = 1
    /\ \E c \in Runs(provisioning) : c.job = "job1" /\ c.pc = "waiting"

\* The step that writes the result of the answered call c.
Writes(c) ==
    /\ c.pc = "answered"
    /\ provisioning' = Replace(provisioning, c, Over)

\* The profile of job j is set and the step changes it.
SetProfileChanges(j) ==
    /\ Truthy(jobStore[j].profile)
    /\ jobStore'[j].profile # jobStore[j].profile

\* C19 as stated: a profile that is set changes only in the step that writes
\* the result of a successful reprovision.
SetProfileChangesOnlyBySuccessfulReprovision ==
    [][\A j \in Stored :
         SetProfileChanges(j) =>
           \E c \in Runs(provisioning) :
             /\ Writes(c)
             /\ c.job = j /\ c.op = "reprovision" /\ c.outcome = "success"]_vars

\* C19 as amended: a profile that is set changes only in the step that writes
\* the result of a successful reprovision, or of a deprovision, which clears
\* it; the step that writes the result of a failed or timed-out provision or
\* reprovision leaves the stored profile as it was.
SetProfileChangesOnlyByReprovisionOrDeprovision ==
    [][/\ \A j \in Stored :
            SetProfileChanges(j) =>
              \E c \in Runs(provisioning) :
                /\ Writes(c)
                /\ c.job = j
                /\ \/ c.op = "reprovision" /\ c.outcome = "success"
                   \/ c.op = "deprovision" /\ jobStore'[j].profile = Absent
       /\ \A c \in Runs(provisioning) :
            (Writes(c) /\ c.op \in {"provision", "reprovision"} /\ c.outcome # "success")
              => jobStore'[c.job].profile = jobStore[c.job].profile]_vars

\* The profile of job1 was replaced by a successful reprovision, and the
\* result of a later reprovision that failed is about to be written.
FailedReprovisionOfReplacedProfile ==
    /\ "job1" \in Stored
    /\ jobStore["job1"].profile = "job1-agentB"
    /\ \E c \in Runs(provisioning) :
          /\ c.job = "job1" /\ c.op = "reprovision"
          /\ c.pc = "answered" /\ c.outcome \in {"failure", "timeout"}

\* ----------------------------------------------------- composer claims
MandatoryMovements == << "role framing", "opening", "technical", "behavioral", "closing" >>

\* The elements of a list.
Elements(l) == { l[i] : i \in 1..Len(l) }

\* The names a document mentions.
Mentioned(doc) == UNION { { doc[i].names[k] : k \in 1..Len(doc[i].names) } : i \in 1..Len(doc) }

\* C20: the instructions composed for a valid job input, as sent to the
\* provider by the job's provisioning call, start with the five mandatory
\* movements in their fixed order, mention the job title and every skill of
\* the job (the technical movement lists the skills as given), and carry a
\* technical guidance that the same job would not get with another difficulty.
ComposedInstructionsComplete ==
    \A c \in Runs(provisioning) :
        (c.op = "provision" /\ c.pc \in {"calling", "answered"}) =>
            LET data == jobStore[c.job].data
                doc  == c.instructions.document
            IN  /\ FormValid(data)
                /\ c.instructions.error = "none"
                /\ Len(doc) >= 5
                /\ [i \in 1..5 |-> doc[i].movement] = MandatoryMovements
                /\ \A i \in 6..Len(doc) : doc[i].movement \notin Elements(MandatoryMovements)
                /\ data.title \in Mentioned(doc)
                /\ data.title \in Elements(doc[1].names)
                /\ \A k \in 1..Len(data.skills) : data.skills[k] \in Mentioned(doc)
                /\ doc[3].names = data.skills
                /\ \A d \in Difficulties \ {data.difficulty} :
                      Compose([data EXCEPT !.difficulty = d]).document[3].guidance
                          # doc[3].guidance

\* The instructions of a senior job with two skills and custom instructions
\* are with the provider.
SeniorJobWithCustomPromptComposed ==
    \E c \in Runs(provisioning) :
        /\ c.op = "provision" /\ c.pc = "calling"
        /\ jobStore[c.job].data.difficulty = "senior"
        /\ Len(jobStore[c.job].data.skills) = 2
        /\ Truthy(jobStore[c.job].data.customPrompt)
        /\ Len(c.instructions.document) = 6

\* ------------------------------------------------------ event log claims
\* The list a starts the list b.
IsPrefix(a, b) == Len(a) <= Len(b) /\ SubSeq(b, 1, Len(a)) = a

\* The event log with the appends React has still to run.
EventLog == messagesRef \o queued

\* C21: the event log holds the delivered messages and only grows at its
\* end: no step changes, removes or reorders an entry; the step that delivers
\* a message adds exactly that one entry at the end and leaves the connection
\* as it is, and no other step adds an entry.
EventLogAppendOnly ==
    /\ [](Len(EventLog) = delivered)
    /\ [][/\ IsPrefix(messagesRef, messagesRef')
          /\ IsPrefix(EventLog, messagesRef' \o queued')
          /\ delivered' # delivered =>
                /\ delivered' = delivered + 1
                /\ \E m \in Messages : messagesRef' \o queued' = Append(EventLog, m)
                /\ status' = status
                /\ channel' = channel
          /\ delivered' = delivered => messagesRef' \o queued' = EventLog]_vars

\* Two different messages have arrived in a connected session and are in the
\* log in the order of their arrival.
TwoMessagesLogged ==
    /\ status = "connected"
    /\ delivered = 2
    /\ Len(messagesRef) = 2
    /\ messagesRef[1] # messagesRef[2]

\* ------------------------------------------------------ job agent claims
\* C22: a session started for the job talks to the job's dedicated agent
\* whenever the job has an agent profile, whether the credential is a signed
\* URL or the fallback, and to the default agent only when the job has none.
SessionTalksToJobAgent ==
    \A a \in Runs(attempts) :
        (a.sessionCalled /\ job = "job1" /\ "job1" \in Stored) =>
            SessionAgent(a.cred, jobStore["job1"].profile)
                = ResolveAgent(TRUE, jobStore["job1"].profile)

\* ------------------------------------------------------ start claims
\* The runs of startConversation whose position is one of pcs.
AttemptsAt(pcs) ==
    BagCardinality([a \in { x \in BagToSet(attempts) : x.pc \in pcs }
                       |-> CopiesIn(a, attempts)])

\* C23: at most one run of startConversation is in progress at a time, and
\* startSession is not called again while a call of it is pending or the
\* session it opened is still connected.
OneStartAttemptAtATime ==
    /\ AttemptsAt({"permission", "fetch", "session"}) <= 1
    /\ AttemptsAt({"session"}) + (IF status = "connected" THEN 1 ELSE 0) <= 1

\* ------------------------------------------------- end of session claims
\* The runs of stopConversation that assemble the transcript in this step.
Assembling == { d \in Runs(stops') : d.handed /\ CopiesIn(d, stops') > CopiesIn(d, stops) }

\* C24: the step that reads the log for the transcript comes when the channel
\* has accepted the closure, and its transcript holds every message that was
\* delivered to onMessage until then.
AssemblyAfterClosureHoldsAllDelivered ==
    [][\A d \in Assembling :
          /\ status' = "disconnected"
          /\ channel' = "none"
          /\ d.transcript = Assemble(EventLog)]_vars

\* The runs of handleInterviewEnd that send their update_interview request
\* (status completed) in this step.
Finalizing ==
    { e \in Runs(ends') : e.pc = "fetching" /\ CopiesIn(e, ends') > CopiesIn(e, ends) }

\* C25: every update_interview request that finalizes the interview carries
\* the assembly of the messages captured in the log at that moment; it is
\* empty only when no message has been captured.
FinalizedWithCapturedTranscript ==
    [][\A e \in Finalizing : e.transcript = Assemble(messagesRef)]_vars

\* C26: the transcript assembled when the session that follows the earlier
\* one is stopped is the assembly of the messages of that session: nothing of
\* the earlier session's log is in it.
LaterTranscriptHoldsOwnMessagesOnly ==
    [][\A d \in Assembling :
          BagCardinality(attempts) = 1 =>
              d.transcript =
                  Assemble(SubSeq(messagesRef, Len(EarlierLog) + 1, Len(messagesRef)))]_vars

\* ------------------------------------------------------ page claims
\* C27: while the stage is 'interview' the interview id is the non-empty id a
\* successful create_interview response carried, a call of handleInterviewEnd
\* would send its update_interview request, and every stopConversation that
\* hands its transcript on starts exactly one such request.
InterviewStageHasInterviewId ==
    /\ [](stage = "interview" =>
            /\ Truthy(interviewId)
            /\ interviewId \in { r.id : r \in { x \in CreateResults : x.status = "success" } }
            /\ \A t \in {Absent, Assemble(messagesRef)} :
                  EndsAfterCall(t) = ends (+) One(NewEnd(t)))
    /\ [][(stage = "interview" /\ Assembling # {}) =>
             BagCardinality(ends') = BagCardinality(ends) + 1]_vars

\* The interview is being ended from the stage 'interview': its
\* update_interview request is on its way.
UpdateRequestIssuedFromInterview ==
    /\ stage = "interview"
    /\ \E e \in Runs(ends) : e.pc = "fetching"

\* C28: a create_interview request is pending only with a job loaded and a
\* name that is not blank; while none is pending and the job request is over
\* the loading flag is false; the step that sends the request leaves stage
\* and interview id alone, and a request that throws or does not answer with
\* success leaves them alone as well and puts the loading flag back to false.
CreateInterviewGuardedAndHarmlessOnFailure ==
    /\ [](/\ createPc = "fetching" => (job # "none" /\ Truthy(Trim(candidateName)))
          /\ (createPc = "idle" /\ loadPc = "done") => ~loading)
    /\ [][/\ (createPc = "idle" /\ createPc' = "fetching") =>
                /\ job # "none"
                /\ candidateName \notin {"", "  "}
                /\ stage' = stage /\ interviewId' = interviewId
          /\ \A r \in CreateResults :
                (r.status # "success" /\ createInterviewSettles(r)) =>
                    stage' = stage /\ interviewId' = interviewId /\ loading' = FALSE
          /\ (createPc = "fetching" /\ createPc' = "idle") => loading' = FALSE]_vars

\* A create_interview request is on its way for a candidate with a name.
CreateInterviewRequestSent ==
    /\ createPc = "fetching"
    /\ loading
    /\ stage = "form"
    /\ candidateName = "Ann"

\* The place of a stage in the order info, form, interview, complete.
StageRank(st) ==
    IF st = "info" THEN 1 ELSE IF st = "form" THEN 2 ELSE IF st = "interview" THEN 3 ELSE 4

\* C29: no step takes the stage to an earlier value; in particular a stage
\* that is 'complete' stays so.
StageOnlyMovesForward ==
    [][StageRank(stage') >= StageRank(stage)]_vars

\* C30, for the job-based interviews PublicInterview hosts: a run of
\* stopConversation that is over has invoked onEndInterview, with the
\* transcript it assembled, and the step in which a run ends invokes it once:
\* exactly one run of handleInterviewEnd starts there.
EachStopRunEndsInterviewOnce ==
    /\ [](\A s \in Runs(stops) :
            s.pc # "ending" => (s.handed /\ s.transcript # Absent))
    /\ [][(\E s \in Runs(stops) :
              s.pc = "ending" /\ CopiesIn(s, stops') < CopiesIn(s, stops)) =>
             BagCardinality(ends') = BagCardinality(ends) + 1]_vars

====
